---- MODULE Spec2Model ----
(***************************************************************************)
(* Model of the task runner of dobi (package tasks, tasks.go): Run parses  *)
(* the requested task names, collectTasks expands them depth-first into a  *)
(* TaskCollection, and executeTasks runs the collection in order and stops *)
(* every started task in reverse order.                                    *)
(*                                                                         *)
(* A task identifier (a Go string) is a sequence of tokens, for example    *)
(* <<"a">> or <<"a", ":", "rm">>.  A task.Name is a record of a resource   *)
(* and an action.  A task instance is identified by the position of its    *)
(* TaskConfig in the collection.  The behaviour of a task (Resolve, Run,   *)
(* Stop) is opaque to the engine: each call is a nondeterministic choice   *)
(* of its return value.                                                    *)
(***************************************************************************)
EXTENDS Integers, Sequences, FiniteSets, TLC

VARIABLES
    registry,       \* options.Config.Resources: resource name -> dependency Names
    jobs,           \* the job resources of options.Config.Resources: name -> JobConfig
    request,        \* options.Tasks as passed to Run
    pc,             \* position of the control flow of Run
    frames,         \* call stack of collect: one frame per active invocation
    taskStack,      \* collectionState.taskStack
    tasks,          \* collectionState.tasks (TaskCollection.tasks)
    collected,      \* the *TaskCollection returned by collectTasks (nil: none)
    err,            \* the error returned by Run
    pos,            \* index of the executeTasks loop in tasks.All()
    ctxResources,   \* ctx.Resources: resource name -> position that resolved it
    ctxModified,    \* ctx modified set (SetModified / IsModified)
    startedTasks,   \* startedTasks of executeTasks
    resolveLog,     \* positions whose Resource.Resolve was invoked, in call order
    depsModified,   \* argument of the latest call of Task.Run
    runLog,         \* positions whose Task.Run was invoked, in call order
    runOk,          \* positions whose Task.Run returned without error
    retModified,    \* Names whose Task.Run returned modified = true
    stopLog,        \* positions whose Task.Stop was invoked, in call order
    stopFailed      \* position of the first Task.Stop that returned an error (0: none)

vars == <<registry, jobs, request, pc, frames, taskStack, tasks, collected, err, pos,
          ctxResources, ctxModified, startedTasks, resolveLog, depsModified, runLog,
          runOk, retModified, stopLog, stopFailed>>

collectVars == <<frames, taskStack, tasks, collected>>
execVars == <<pos, ctxResources, ctxModified, startedTasks, resolveLog, depsModified,
              runLog, runOk, retModified, stopLog, stopFailed>>

----------------------------------------------------------------------------
(* Bounds of the model *)

\* longest dependency list of a resource
MaxDeps == 2
\* longest list of requested task names
MaxTasks == 2

Resources == {"a", "b", "c"}
Sep == ":"
DefaultAction == "default"
Nil == [nil |-> TRUE, tasks |-> <<>>]
NoCfg == [name |-> [resource |-> "", action |-> ""], deps |-> <<>>]
NoErr == [kind |-> "none", name |-> <<>>, path |-> <<>>]

SeqsUpTo(S, n) == UNION {[1..k -> S] : k \in 0..n}

----------------------------------------------------------------------------
(* task.Name *)

NewName(res, act) == [resource |-> res, action |-> act]

\* index of the first separator of s, 0 when there is none
SepIndex(s) ==
    IF \E i \in 1..Len(s) : s[i] = Sep
    THEN CHOOSE i \in 1..Len(s) : s[i] = Sep /\ \A j \in 1..(i-1) : s[j] # Sep
    ELSE 0

\* task.ParseName: split on the separator; the resource part must not be empty
ParseName(s) ==
    LET k == SepIndex(s)
        resPart == IF k = 0 THEN s ELSE SubSeq(s, 1, k - 1)
        actPart == IF k = 0 THEN <<>> ELSE SubSeq(s, k + 1, Len(s))
    IN  IF Len(resPart) # 1
        THEN [ok |-> FALSE, name |-> NewName("", "")]
        ELSE [ok |-> TRUE,
              name |-> NewName(resPart[1],
                               IF actPart = <<>> THEN DefaultAction ELSE actPart[1])]

\* Name.Name(): the canonical string form
NameString(n) == <<n.resource, Sep, n.action>>

\* Name.Equal
NameEqual(n, m) == n.resource = m.resource /\ n.action = m.action

----------------------------------------------------------------------------
(* task.Stack *)

StackContains(stack, n) == \E i \in 1..Len(stack) : NameEqual(stack[i], n)
StackPush(stack, n) == Append(stack, n)
StackPop(stack) == SubSeq(stack, 1, Len(stack) - 1)
StackNames(stack) == [i \in 1..Len(stack) |-> NameString(stack[i])]

----------------------------------------------------------------------------
(* collect *)

\* task.ParseNames: ParseName of each element, failing on the first error
ParseNames(idents) ==
    [ok |-> \A i \in 1..Len(idents) : ParseName(idents[i]).ok,
     names |-> [i \in 1..Len(idents) |-> ParseName(idents[i]).name]]

\* JobDependencies without the image of use
JobDependencies_NoUse(c) ==
    LET deps == ParseNames(c.depends)
        mnts == ParseNames(c.mounts)
        use == ParseName(c.use)
    IN  IF ~deps.ok \/ ~mnts.ok \/ ~use.ok
        THEN [ok |-> FALSE, deps |-> <<>>]
        ELSE [ok |-> TRUE, deps |-> mnts.names \o deps.names]

\* JobConfig.Dependencies: the mounts, the explicit depends, then the image of use
JobDependencies(c) ==
    LET deps == ParseNames(c.depends)
        mnts == ParseNames(c.mounts)
        use == ParseName(c.use)
    IN  IF ~deps.ok \/ ~mnts.ok \/ ~use.ok
        THEN [ok |-> FALSE, deps |-> <<>>]
        ELSE [ok |-> TRUE, deps |-> mnts.names \o (deps.names \o <<use.name>>)]

\* Lookup with the ok result ignored
Lookup_IgnoreOk(res) ==
    [ok |-> TRUE, cfgOk |-> TRUE,
     deps |-> IF res \in DOMAIN registry THEN registry[res] ELSE <<>>]

\* resource, ok := options.Config.Resources[resourceName]
\* (a resource is represented by its Dependencies(): cfgOk and the dependency
\* list; the zero value when absent)
Lookup(res) ==
    IF res \in DOMAIN jobs
    THEN [ok |-> TRUE, cfgOk |-> JobDependencies(jobs[res]).ok,
          deps |-> JobDependencies(jobs[res]).deps]
    ELSE IF res \in DOMAIN registry
    THEN [ok |-> TRUE, cfgOk |-> TRUE, deps |-> registry[res]]
    ELSE [ok |-> FALSE, cfgOk |-> TRUE, deps |-> <<>>]

\* buildTaskConfig: the TaskConfig of a Name and its Resource
buildTaskConfig(name, resource) == [name |-> name, deps |-> resource.deps]

\* DepStrings with the last dependency left out of the expansion
DepStrings_DropLast(cfg) ==
    [i \in 1..(Len(cfg.deps) - 1) |-> NameString(cfg.deps[i])]

\* add putting the TaskConfig in front of the collection
add_Front(coll, task) == <<task>> \o coll

\* TaskCollection.add
add(coll, task) == Append(coll, task)

\* DepStrings with the dependencies in reverse order
DepStrings_Reversed(cfg) ==
    [i \in 1..Len(cfg.deps) |-> NameString(cfg.deps[Len(cfg.deps) + 1 - i])]

\* depStrings of collect
DepStrings(cfg) == [i \in 1..Len(cfg.deps) |-> NameString(cfg.deps[i])]

\* InCycle comparing with the top of the stack only
InCycle_TopOnly(taskConfig) ==
    Len(taskStack) > 0 /\ NameEqual(taskStack[Len(taskStack)], taskConfig.name)

\* state.taskStack.Contains(taskConfig.Name())
InCycle(taskConfig) == StackContains(taskStack, taskConfig.name)

Top == frames[Len(frames)]
SetTop(f) == [frames EXCEPT ![Len(frames)] = f]

\* CollectFail with Run going on to executeTasks with the tasks collected so far
CollectFail_Continue(e) ==
    /\ err' = e
    /\ pc' = "execute"
    /\ frames' = <<>>
    /\ collected' = Nil
    /\ UNCHANGED <<registry, jobs, request, taskStack, tasks>>
    /\ UNCHANGED execVars

\* return nil, err from every active invocation of collect, and from Run
CollectFail(e) ==
    /\ err' = e
    /\ pc' = "done"
    /\ frames' = <<>>
    /\ collected' = Nil
    /\ UNCHANGED <<registry, jobs, request, taskStack, tasks>>
    /\ UNCHANGED execVars

----------------------------------------------------------------------------
(* Inputs *)

\* the Names a resource may declare as dependencies
DepNames == {NewName(r, DefaultAction) : r \in Resources}

\* the identifiers a user may request
ReqIdents == {<<"a">>, <<"b", Sep, "rm">>, <<Sep, "rm">>}

\* values of options.Config.Meta.Default ("" is the empty sequence)
MetaDefaults == {<<>>, <<"a">>}

\* a dependency list names each of its Names once
DepLists == {d \in SeqsUpTo(DepNames, MaxDeps) : \A i, j \in 1..Len(d) : d[i] = d[j] => i = j}

Registries == UNION {[D -> DepLists] : D \in SUBSET Resources}

Init ==
    /\ registry \in Registries
    /\ jobs = <<>>
    /\ request \in SeqsUpTo(ReqIdents, MaxTasks)
    /\ pc = "start"
    /\ frames = <<>>
    /\ taskStack = <<>>
    /\ tasks = <<>>
    /\ collected = Nil
    /\ err = NoErr
    /\ pos = 1
    /\ ctxResources = <<>>
    /\ ctxModified = {}
    /\ startedTasks = <<>>
    /\ resolveLog = <<>>
    /\ depsModified = FALSE
    /\ runLog = <<>>
    /\ runOk = {}
    /\ retModified = {}
    /\ stopLog = <<>>
    /\ stopFailed = 0

\* the strings of the use, mounts and depends fields of a job
JobIdents == {<<r>> : r \in Resources} \cup {<<Sep, "rm">>}

\* lists of field values, each value once
JobLists == {d \in SeqsUpTo(JobIdents, MaxDeps) : \A i, j \in 1..Len(d) : d[i] = d[j] => i = j}

\* JobConfig: the fields Dependencies reads
JobConfigs == [use : JobIdents, mounts : JobLists, depends : JobLists]

\* a configuration with the job "a"; the other resources (images, mounts) are
\* present and have no dependencies
InitJob ==
    /\ jobs \in [{"a"} -> JobConfigs]
    /\ registry = [r \in Resources \ {"a"} |-> <<>>]
    /\ request \in SeqsUpTo({<<"a">>}, MaxTasks)
    /\ pc = "start"
    /\ frames = <<>>
    /\ taskStack = <<>>
    /\ tasks = <<>>
    /\ collected = Nil
    /\ err = NoErr
    /\ pos = 1
    /\ ctxResources = <<>>
    /\ ctxModified = {}
    /\ startedTasks = <<>>
    /\ resolveLog = <<>>
    /\ depsModified = FALSE
    /\ runLog = <<>>
    /\ runOk = {}
    /\ retModified = {}
    /\ stopLog = <<>>
    /\ stopFailed = 0

----------------------------------------------------------------------------
(* Run, up to the call of collectTasks *)

RunStart ==
    /\ pc = "start"
    /\ \E metaDefault \in MetaDefaults, envOk \in BOOLEAN :
          LET optTasks == IF Len(request) = 0 THEN <<metaDefault>> ELSE request
          IN  IF Len(request) = 0 /\ metaDefault = <<>>
              THEN CollectFail([NoErr EXCEPT !.kind = "nodefault"])
              ELSE IF ~envOk
              THEN CollectFail([NoErr EXCEPT !.kind = "execenv"])
              ELSE /\ frames' = <<[names |-> optTasks, i |-> 1, cfg |-> NoCfg]>>
                   /\ pc' = "collect"
                   /\ UNCHANGED <<registry, jobs, request, taskStack, tasks, collected, err>>
                   /\ UNCHANGED execVars

----------------------------------------------------------------------------
(* collect: one iteration of the loop over options.Tasks *)

\* ParseName, the registry lookup and buildTaskConfig
CollectLookup ==
    /\ pc = "collect"
    /\ Len(frames) > 0
    /\ Top.i <= Len(Top.names)
    /\ LET taskname == Top.names[Top.i]
           parsed == ParseName(taskname)
           resourceName == parsed.name.resource
           resource == Lookup(resourceName)
       IN  IF ~parsed.ok
           THEN CollectFail([NoErr EXCEPT !.kind = "invalid", !.name = taskname])
           ELSE IF ~resource.ok
           THEN CollectFail([NoErr EXCEPT !.kind = "unknown", !.name = <<resourceName>>])
           ELSE IF ~resource.cfgOk
           THEN CollectFail([NoErr EXCEPT !.kind = "config", !.name = <<resourceName>>])
           ELSE /\ frames' = SetTop([Top EXCEPT !.cfg = buildTaskConfig(parsed.name, resource)])
                /\ pc' = "cycle"
                /\ UNCHANGED <<registry, jobs, request, taskStack, tasks, collected, err>>
                /\ UNCHANGED execVars

\* the cycle check, the push and the recursive call
CollectPush ==
    /\ pc = "cycle"
    /\ LET taskConfig == Top.cfg
       IN  IF InCycle(taskConfig)
           THEN CollectFail([NoErr EXCEPT !.kind = "cycle", !.path = StackNames(taskStack)])
           ELSE /\ taskStack' = StackPush(taskStack, taskConfig.name)
                /\ frames' = Append(frames, [names |-> DepStrings(taskConfig), i |-> 1, cfg |-> NoCfg])
                /\ pc' = "collect"
                /\ UNCHANGED <<registry, jobs, request, tasks, collected, err>>
                /\ UNCHANGED execVars

\* CollectAdd without the pop of the stack
CollectAdd_NoPop ==
    /\ pc = "collect"
    /\ Len(frames) > 1
    /\ Top.i > Len(Top.names)
    /\ LET caller == frames[Len(frames) - 1]
       IN  /\ tasks' = add(tasks, caller.cfg)
           /\ frames' = [SubSeq(frames, 1, Len(frames) - 1) EXCEPT
                            ![Len(frames) - 1] = [caller EXCEPT !.i = caller.i + 1, !.cfg = NoCfg]]
    /\ UNCHANGED <<registry, jobs, request, pc, collected, err, taskStack>>
    /\ UNCHANGED execVars

\* a recursive call returns state.tasks, nil: add the TaskConfig, pop the stack
CollectAdd ==
    /\ pc = "collect"
    /\ Len(frames) > 1
    /\ Top.i > Len(Top.names)
    /\ LET caller == frames[Len(frames) - 1]
       IN  /\ tasks' = add(tasks, caller.cfg)
           /\ taskStack' = StackPop(taskStack)
           /\ frames' = [SubSeq(frames, 1, Len(frames) - 1) EXCEPT
                            ![Len(frames) - 1] = [caller EXCEPT !.i = caller.i + 1, !.cfg = NoCfg]]
    /\ UNCHANGED <<registry, jobs, request, pc, collected, err>>
    /\ UNCHANGED execVars

\* the outermost call returns state.tasks, nil to collectTasks and Run
CollectDone ==
    /\ pc = "collect"
    /\ Len(frames) = 1
    /\ Top.i > Len(Top.names)
    /\ collected' = [nil |-> FALSE, tasks |-> tasks]
    /\ frames' = <<>>
    /\ pc' = "execute"
    /\ UNCHANGED <<registry, jobs, request, taskStack, tasks, err>>
    /\ UNCHANGED execVars

----------------------------------------------------------------------------
(* executeTasks *)

\* reversed(tasks)
reversed(seq) == [i \in 1..Len(seq) |-> seq[Len(seq) + 1 - i]]

\* ctx.IsModified
IsModified(modified, n) == n \in modified

\* hasModifiedDeps looking at the first dependency only
hasModifiedDeps_FirstOnly(modified, deps) ==
    Len(deps) > 0 /\ IsModified(modified, deps[1])

\* hasModifiedDeps true as soon as any Name is marked modified
hasModifiedDeps_AnyModified(modified, deps) == Len(deps) > 0 /\ modified # {}

\* hasModifiedDeps(ctx, deps)
hasModifiedDeps(modified, deps) == \E i \in 1..Len(deps) : IsModified(modified, deps[i])

\* ctx.Resources.Add: overwrites an earlier entry of the same resource name
ResourcesAdd(resources, res, value) ==
    [r \in DOMAIN resources \cup {res} |-> IF r = res THEN value ELSE resources[r]]

\* the loop has a next TaskConfig
HasNext(p) == p <= Len(tasks)

\* ExecStart storing the resource before the error of Resolve is looked at
ExecStart_StoreFirst ==
    /\ pc = "execute"
    /\ HasNext(pos)
    /\ resolveLog' = Append(resolveLog, pos)
    /\ ctxResources' = ResourcesAdd(ctxResources, tasks[pos].name.resource, pos)
    /\ \E resolveOk \in BOOLEAN :
          IF ~resolveOk
          THEN /\ err' = [NoErr EXCEPT !.kind = "resolve"]
               /\ pc' = "cleanup"
               /\ UNCHANGED startedTasks
          ELSE /\ startedTasks' = Append(startedTasks, pos)
               /\ pc' = "started"
               /\ UNCHANGED err
    /\ UNCHANGED <<registry, jobs, request, pos, ctxModified, depsModified, runLog, runOk,
                   retModified, stopLog, stopFailed>>
    /\ UNCHANGED collectVars

\* Resolve the resource, store it, create the task and record it as started
ExecStart ==
    /\ pc = "execute"
    /\ HasNext(pos)
    /\ resolveLog' = Append(resolveLog, pos)
    /\ \E resolveOk \in BOOLEAN :
          IF ~resolveOk
          THEN /\ err' = [NoErr EXCEPT !.kind = "resolve"]
               /\ pc' = "cleanup"
               /\ UNCHANGED <<ctxResources, startedTasks>>
          ELSE /\ ctxResources' = ResourcesAdd(ctxResources, tasks[pos].name.resource, pos)
               /\ startedTasks' = Append(startedTasks, pos)
               /\ pc' = "started"
               /\ UNCHANGED err
    /\ UNCHANGED <<registry, jobs, request, pos, ctxModified, depsModified, runLog, runOk,
                   retModified, stopLog, stopFailed>>
    /\ UNCHANGED collectVars

\* currentTask.Run is called with hasModifiedDeps(ctx, taskConfig.Dependencies())
ExecRun ==
    /\ pc = "started"
    /\ depsModified' = hasModifiedDeps(ctxModified, tasks[pos].deps)
    /\ runLog' = Append(runLog, pos)
    /\ pc' = "running"
    /\ UNCHANGED <<registry, jobs, request, err, pos, ctxResources, ctxModified, startedTasks,
                   resolveLog, runOk, retModified, stopLog, stopFailed>>
    /\ UNCHANGED collectVars

\* AfterRun with the loop going on after an error of Run
AfterRun_Continue(runErr, modified) ==
    /\ err' = IF runErr
              THEN [NoErr EXCEPT !.kind = "run", !.name = NameString(tasks[pos].name)]
              ELSE err
    /\ ctxModified' = IF modified /\ ~runErr THEN ctxModified \cup {tasks[pos].name}
                                              ELSE ctxModified
    /\ pos' = pos + 1
    /\ pc' = "execute"

\* AfterRun with the error of Run dropped
AfterRun_Swallow(runErr, modified) ==
    IF runErr
    THEN /\ pc' = "cleanup"
         /\ UNCHANGED <<err, pos, ctxModified>>
    ELSE /\ ctxModified' = IF modified THEN ctxModified \cup {tasks[pos].name}
                                       ELSE ctxModified
         /\ pos' = pos + 1
         /\ pc' = "execute"
         /\ UNCHANGED err

\* AfterRun marking the Name whatever Run returned as modified
AfterRun_MarkAlways(runErr, modified) ==
    IF runErr
    THEN /\ err' = [NoErr EXCEPT !.kind = "run", !.name = NameString(tasks[pos].name)]
         /\ pc' = "cleanup"
         /\ UNCHANGED <<pos, ctxModified>>
    ELSE /\ ctxModified' = ctxModified \cup {tasks[pos].name}
         /\ pos' = pos + 1
         /\ pc' = "execute"
         /\ UNCHANGED err

\* AfterRun marking the Name before the error of Run is looked at
AfterRun_MarkOnError(runErr, modified) ==
    /\ ctxModified' = IF modified THEN ctxModified \cup {tasks[pos].name}
                                  ELSE ctxModified
    /\ IF runErr
       THEN /\ err' = [NoErr EXCEPT !.kind = "run", !.name = NameString(tasks[pos].name)]
            /\ pc' = "cleanup"
            /\ UNCHANGED pos
       ELSE /\ pos' = pos + 1
            /\ pc' = "execute"
            /\ UNCHANGED err

\* the state of the loop after Run returned (modified, runErr)
AfterRun(runErr, modified) ==
    IF runErr
    THEN /\ err' = [NoErr EXCEPT !.kind = "run", !.name = NameString(tasks[pos].name)]
         /\ pc' = "cleanup"
         /\ UNCHANGED <<pos, ctxModified>>
    ELSE /\ ctxModified' = IF modified THEN ctxModified \cup {tasks[pos].name}
                                       ELSE ctxModified
         /\ pos' = pos + 1
         /\ pc' = "execute"
         /\ UNCHANGED err

\* currentTask.Run returns
ExecReturn ==
    /\ pc = "running"
    /\ \E runErr \in BOOLEAN, modified \in BOOLEAN :
          /\ AfterRun(runErr, modified)
          /\ runOk' = IF runErr THEN runOk ELSE runOk \cup {pos}
          /\ retModified' = IF modified /\ ~runErr THEN retModified \cup {tasks[pos].name}
                                                    ELSE retModified
    /\ UNCHANGED <<registry, jobs, request, ctxResources, startedTasks, resolveLog, depsModified,
                   runLog, stopLog, stopFailed>>
    /\ UNCHANGED collectVars

\* the loop is over: return nil
ExecEnd ==
    /\ pc = "execute"
    /\ ~HasNext(pos)
    /\ pc' = "cleanup"
    /\ UNCHANGED <<registry, jobs, request, err>>
    /\ UNCHANGED execVars
    /\ UNCHANGED collectVars

\* StopOrder over the tasks whose Run completed only
StopOrder_OnlyCompleted(started) == reversed(SelectSeq(started, LAMBDA p : p \in runOk))

\* StopOrder without the reversal
StopOrder_Forward(started) == started

\* the tasks the deferred function stops, in order
StopOrder(started) == reversed(started)

\* AfterStop with an error of Stop ending the deferred function
AfterStop_Abort(stopErr, startedTask) ==
    /\ stopFailed' = IF stopErr /\ stopFailed = 0 THEN startedTask ELSE stopFailed
    /\ pc' = IF stopErr THEN "done" ELSE pc
    /\ UNCHANGED err

\* the state of the deferred loop after startedTask.Stop returned: an error is
\* logged as a warning
AfterStop(stopErr, startedTask) ==
    /\ stopFailed' = IF stopErr /\ stopFailed = 0 THEN startedTask ELSE stopFailed
    /\ UNCHANGED <<pc, err>>

\* the deferred function: one iteration of the loop over reversed(startedTasks)
ExecStop ==
    /\ pc = "cleanup"
    /\ Len(stopLog) < Len(StopOrder(startedTasks))
    /\ LET startedTask == StopOrder(startedTasks)[Len(stopLog) + 1]
       IN  /\ stopLog' = Append(stopLog, startedTask)
           /\ \E stopErr \in BOOLEAN : AfterStop(stopErr, startedTask)
    /\ UNCHANGED <<registry, jobs, request, pos, ctxResources, ctxModified, startedTasks,
                   resolveLog, depsModified, runLog, runOk, retModified>>
    /\ UNCHANGED collectVars

\* the deferred function is over: executeTasks and Run return
ExecDone ==
    /\ pc = "cleanup"
    /\ Len(stopLog) >= Len(StopOrder(startedTasks))
    /\ pc' = "done"
    /\ UNCHANGED <<registry, jobs, request, err>>
    /\ UNCHANGED execVars
    /\ UNCHANGED collectVars

----------------------------------------------------------------------------

Next ==
    \/ RunStart
    \/ CollectLookup
    \/ CollectPush
    \/ CollectAdd
    \/ CollectDone
    \/ ExecStart
    \/ ExecRun
    \/ ExecReturn
    \/ ExecEnd
    \/ ExecStop
    \/ ExecDone

Spec == Init /\ [][Next]_vars

\* the steps of Run up to the return of collectTasks
CollectStep == RunStart \/ CollectLookup \/ CollectPush \/ CollectAdd \/ CollectDone

\* Run called with at most one identifier; collect iterates over a dependency
\* list with the loop it iterates over the requested names with
InitFair == Init /\ Len(request) <= 1

\* collect has no blocking call: a step of collectTasks that can be taken is
\* taken
SpecFair == InitFair /\ [][CollectStep]_vars /\ WF_vars(CollectStep)

\* the runs of a configuration with a job resource
SpecJob == InitJob /\ [][Next]_vars

----------------------------------------------------------------------------
(* Properties of collectTasks *)

Range(seq) == {seq[i] : i \in 1..Len(seq)}
NoDup(seq) == \A i, j \in 1..Len(seq) : seq[i] = seq[j] => i = j

\* the Names reachable from the Names of N through the dependency lists
RECURSIVE ReachFrom(_, _)
ReachFrom(N, k) ==
    IF k = 0 THEN N
    ELSE LET next == N \cup UNION {Range(registry[n.resource]) :
                                      n \in {m \in N : m.resource \in DOMAIN registry}}
         IN  ReachFrom(next, k - 1)

\* no resource of the registry reaches itself through the dependency lists
Acyclic ==
    \A r \in DOMAIN registry :
        NewName(r, DefaultAction) \notin
            ReachFrom(Range(registry[r]), Cardinality(Resources))

\* every dependency of the TaskConfig at a position is the Name of an earlier position
DependencyFirst(coll) ==
    \A p \in 1..Len(coll) :
        \A d \in Range(coll[p].deps) :
            \E q \in 1..(p - 1) : coll[q].name = d

\* C1: for an acyclic registry, the sequence returned by collectTasks is
\* dependency-first: every Name of the dependency list of the TaskConfig at a
\* position is the Name of a TaskConfig at a strictly earlier position.
C1_DependencyFirst ==
    (Acyclic /\ ~collected.nil) => DependencyFirst(collected.tasks)

\* a collection was returned in which one TaskConfig has two dependencies, one of
\* which depends on the other
C1_Witness ==
    /\ Acyclic
    /\ ~collected.nil
    /\ \E p \in 1..Len(collected.tasks) :
          /\ Len(collected.tasks[p].deps) = 2
          /\ \E q \in 1..(p - 1) :
                /\ collected.tasks[q].name = collected.tasks[p].deps[1]
                /\ collected.tasks[p].deps[2] \in Range(collected.tasks[q].deps)

\* the iteration of collect at the cycle check, with the Name of its TaskConfig
\* already on the active-path stack
CycleReached ==
    /\ pc = "cycle"
    /\ \E i \in 1..Len(taskStack) : taskStack[i] = Top.cfg.name

\* C2: when the expansion reaches a Name that is already on the active-path
\* stack, collectTasks returns a cyclic-dependency error and no TaskCollection;
\* the path of the error is the active stack at detection, which holds the
\* Names in the order they were pushed and each Name once, the Names of the
\* cycle included.
C2_CycleError ==
    [][CycleReached =>
          /\ pc' = "done"
          /\ err'.kind = "cycle"
          /\ collected'.nil
          /\ err'.path = [i \in 1..Len(taskStack) |-> NameString(taskStack[i])]
          /\ NoDup(err'.path)
          /\ NameString(Top.cfg.name) \in Range(err'.path)
          /\ \A i \in 1..Len(frames) - 1 : taskStack[i] = frames[i].cfg.name]_vars

\* a cycle of two Names was detected: the path lists both
C2_Witness ==
    /\ pc = "done"
    /\ err.kind = "cycle"
    /\ Len(err.path) = 2
    /\ err.path[1] # err.path[2]

\* the iteration of collect at the registry lookup, with a Name whose resource
\* is absent from the registry
UnknownReached ==
    /\ pc = "collect"
    /\ Len(frames) > 0
    /\ Top.i <= Len(Top.names)
    /\ ParseName(Top.names[Top.i]).ok
    /\ ParseName(Top.names[Top.i]).name.resource \notin DOMAIN registry

\* C3: when a requested Name or a Name reached as a transitive dependency names
\* a resource absent from the registry, collectTasks returns an unknown-resource
\* error and no TaskCollection; the cycle check of a Name is made only after
\* its registry lookup succeeded.
C3_UnknownResource ==
    /\ [][UnknownReached =>
             /\ pc' = "done"
             /\ err'.kind = "unknown"
             /\ err'.name = <<ParseName(Top.names[Top.i]).name.resource>>
             /\ collected'.nil]_vars
    /\ [](pc = "cycle" => /\ Top.cfg # NoCfg
                          /\ Top.cfg.name.resource \in DOMAIN registry)

\* the resource of a transitive dependency was unknown
C3_Witness ==
    /\ pc = "done"
    /\ err.kind = "unknown"
    /\ Len(taskStack) >= 2

\* Run returned an error of collectTasks
CollectionFailed == err.kind \in {"invalid", "unknown", "cycle"}

\* C4: when collection fails in Run, no task is resolved, started, run or
\* stopped and the modified set and the resolved-resource registry stay as
\* created; no task is executed before collectTasks has returned its collection.
C4_NoExecutionOnCollectError ==
    (CollectionFailed \/ collected.nil) =>
        /\ resolveLog = <<>>
        /\ startedTasks = <<>>
        /\ runLog = <<>>
        /\ stopLog = <<>>
        /\ ctxModified = {}
        /\ ctxResources = <<>>
        /\ (CollectionFailed => pc = "done")

\* collection failed at depth, after a TaskConfig had been added to the
\* collection
C4_Witness ==
    /\ pc = "done"
    /\ err.kind \in {"unknown", "cycle"}
    /\ Len(tasks) >= 1
    /\ Len(taskStack) >= 1

----------------------------------------------------------------------------
(* Properties of executeTasks *)

\* executeTasks was called and has returned
Executed == pc = "done" /\ ~collected.nil

\* the sequence <<1, ..., n>>
UpTo(n) == [i \in 1..n |-> i]

\* the sequence <<n, ..., 1>>
DownFrom(n) == [i \in 1..n |-> n + 1 - i]

\* the positions whose Run returned an error
RunFailed == IF pc = "running" THEN {} ELSE Range(runLog) \ runOk

\* the Resolve of the latest position failed
ResolveFailed ==
    /\ pc \in {"cleanup", "done"}
    /\ Len(resolveLog) > Len(startedTasks)

\* C5: on every exit path of executeTasks, Stop is invoked on every task
\* recorded as started, in the reverse of the order in which the tasks were
\* started, before executeTasks returns; no Stop is invoked before the loop
\* over the TaskConfigs has ended.
C5_StopReverse ==
    /\ Len(stopLog) <= Len(startedTasks)
    /\ \A i \in 1..Len(stopLog) : stopLog[i] = startedTasks[Len(startedTasks) + 1 - i]
    /\ Executed => Len(stopLog) = Len(startedTasks)
    /\ stopLog # <<>> => pc \in {"cleanup", "done"}

\* executeTasks returned after a Resolve failed, with two tasks started before
C5_Witness ==
    /\ Executed
    /\ err.kind = "resolve"
    /\ startedTasks = <<1, 2>>
    /\ stopLog = <<2, 1>>

\* C6: when the Run of the task at position k returns an error, no TaskConfig
\* at a later position is resolved, started, run or stopped, and when
\* executeTasks returns the task at k and every task started before it have
\* been stopped, the task at k first.
C6_FailureStopsLoop ==
    err.kind = "run" =>
        /\ Cardinality(RunFailed) = 1
        /\ \A k \in RunFailed :
              /\ resolveLog = UpTo(k)
              /\ startedTasks = UpTo(k)
              /\ runLog = UpTo(k)
              /\ runOk = 1..(k - 1)
              /\ DOMAIN ctxResources = {tasks[p].name.resource : p \in 1..k}
              /\ \A p \in Range(stopLog) : p <= k
              /\ Executed => stopLog = DownFrom(k)

\* of three collected tasks the Run of the second failed: Stop was invoked on the
\* second, then on the first, and the third was never touched
C6_Witness ==
    /\ Executed
    /\ Len(collected.tasks) = 3
    /\ err.kind = "run"
    /\ RunFailed = {2}
    /\ stopLog = <<2, 1>>

C8_Original ==
    (Executed /\ stopFailed # 0) =>
        /\ Range(stopLog) = Range(startedTasks)
        /\ IF RunFailed # {}
           THEN err.kind = "run"
           ELSE err = NoErr

\* C8: when a Stop fails, Stop is still invoked on every started task and the
\* result of executeTasks is the one the loop ended with: the error of the
\* failed Run or of the failed Resolve if there was one, and success if there
\* was none.
C8_StopFailureIsolated ==
    /\ stopFailed # 0 => stopFailed \in Range(stopLog)
    /\ (Executed /\ stopFailed # 0) =>
          /\ Range(stopLog) = Range(startedTasks)
          /\ Len(stopLog) = Len(startedTasks)
          /\ IF RunFailed # {}
             THEN /\ err.kind = "run"
                  /\ \E k \in RunFailed : err.name = NameString(collected.tasks[k].name)
             ELSE IF ResolveFailed
             THEN err = [NoErr EXCEPT !.kind = "resolve"]
             ELSE err = NoErr

\* the first Stop of the cleanup failed, a later Stop was invoked all the same,
\* and the result is the error of the failed Run
C8_Witness ==
    /\ Executed
    /\ Len(stopLog) >= 2
    /\ stopFailed = stopLog[1]
    /\ err.kind = "run"

\* C9: a task is run with depsModified = true when the Run of one of the Names
\* of its dependency list completed with modified = true earlier in the run,
\* and with depsModified = false when no Run of any of them did.
C9_ModifiedPropagation ==
    pc = "running" =>
        LET deps == Range(collected.tasks[pos].deps)
        IN  /\ (\E x \in deps : x \in retModified) => depsModified = TRUE
            /\ (\A x \in deps : x \notin retModified) => depsModified = FALSE

\* a task with two dependencies is run with depsModified = true because the Run
\* of its second dependency returned modified = true, the first one's did not
C9_Witness ==
    /\ pc = "running"
    /\ depsModified
    /\ Len(collected.tasks[pos].deps) = 2
    /\ collected.tasks[pos].deps[1] \notin retModified
    /\ collected.tasks[pos].deps[2] \in retModified

\* C10: whenever the Run of a task is invoked, the Run of every Name of its
\* dependency list has been invoked earlier in the same run and has completed
\* without error.
C10_RunAfterDependencies ==
    \A i \in 1..Len(runLog) :
        \A d \in Range(tasks[runLog[i]].deps) :
            \E j \in 1..(i - 1) :
                /\ tasks[runLog[j]].name = d
                /\ runLog[j] \in runOk

\* the Run of a task with two dependencies was invoked
C10_Witness ==
    /\ pc = "running"
    /\ Len(tasks[pos].deps) = 2
    /\ runLog[Len(runLog)] = pos

----------------------------------------------------------------------------
(* Properties of the whole run *)

\* the Names of the TaskConfigs whose Run was invoked, in call order
RunNames == [i \in 1..Len(runLog) |-> tasks[runLog[i]].name]

\* the Names of a collection, in order
CollectionNames(coll) == [i \in 1..Len(coll) |-> coll[i].name]

\* C11: in one run each Name appears at most once in the collected sequence and
\* its Run is invoked at most once, also when the Name is a dependency shared by
\* two tasks or is requested more than once.
C11_AtMostOnce ==
    /\ ~collected.nil => NoDup(CollectionNames(collected.tasks))
    /\ NoDup(RunNames)

\* C12: every error Run returns from collection or execution names the task
\* identifier it is about: the unknown resource, the Names of the cycle, the
\* task whose Resource failed to resolve, the task whose Run failed.
C12_ErrorsNameTask ==
    pc = "done" =>
        /\ err.kind = "unknown" => err.name # <<>>
        /\ err.kind = "cycle" => err.path # <<>>
        /\ err.kind = "resolve" => err.name # <<>>
        /\ err.kind = "run" => err.name # <<>>

\* the Name a field value of a job stands for
FieldName(ident) == ParseName(ident).name

\* the image of use and the mounts of a job
UseAndMounts(c) == {FieldName(c.use)} \cup {FieldName(m) : m \in Range(c.mounts)}

\* C13: the dependency list of the TaskConfig of a job holds the image named in
\* use, every mount of mounts and every Name of depends, and whenever the Run of
\* the job is invoked, the Run of the use image and of each listed mount has
\* been invoked earlier in the run.
C13_JobDependencies ==
    /\ \A p \in 1..Len(tasks) :
          tasks[p].name.resource \in DOMAIN jobs =>
              LET c == jobs[tasks[p].name.resource]
              IN  Range(tasks[p].deps) =
                      UseAndMounts(c) \cup {FieldName(d) : d \in Range(c.depends)}
    /\ \A i \in 1..Len(runLog) :
          tasks[runLog[i]].name.resource \in DOMAIN jobs =>
              \A n \in UseAndMounts(jobs[tasks[runLog[i]].name.resource]) :
                  \E k \in 1..(i - 1) : tasks[runLog[k]].name = n

\* the Run of a job with a use image and a mount was invoked
C13_Witness ==
    /\ pc = "running"
    /\ tasks[pos].name.resource \in DOMAIN jobs
    /\ jobs[tasks[pos].name.resource].use = <<"b">>
    /\ jobs[tasks[pos].name.resource].mounts = <<<<"c">>>>
    /\ RunNames = <<NewName("c", DefaultAction), NewName("b", DefaultAction),
                    NewName("a", DefaultAction)>>

\* C14: as long as no Run of the run has returned modified = true, no Name is
\* marked modified in the context and every task is run with
\* depsModified = false.
C14_UnmodifiedRun ==
    retModified = {} =>
        /\ ctxModified = {}
        /\ pc = "running" => depsModified = FALSE

\* a run of three tasks, the last with a dependency, ended with success and no
\* Run returned modified = true
C14_Witness ==
    /\ Executed
    /\ err = NoErr
    /\ retModified = {}
    /\ Len(runLog) = 3
    /\ Len(tasks[3].deps) >= 1

\* C15: when the Resolve of the TaskConfig at a position fails, executeTasks
\* returns that error; the step stores nothing in the resolved-resource
\* registry and no task of that position is started, run or stopped; the tasks
\* started at the earlier positions are stopped in reverse start order.
C15_ResolveFailure ==
    ResolveFailed =>
        LET k == resolveLog[Len(resolveLog)]
        IN  /\ err = [NoErr EXCEPT !.kind = "resolve"]
            /\ resolveLog = UpTo(k)
            /\ \A r \in DOMAIN ctxResources : ctxResources[r] < k
            /\ DOMAIN ctxResources = {tasks[p].name.resource : p \in 1..(k - 1)}
            /\ startedTasks = UpTo(k - 1)
            /\ runLog = UpTo(k - 1)
            /\ \A p \in Range(stopLog) : p < k
            /\ Executed => stopLog = DownFrom(k - 1)

\* the Resolve of the third TaskConfig failed: the tasks of the first two were
\* stopped, the second first
C15_Witness ==
    /\ Executed
    /\ ResolveFailed
    /\ resolveLog = <<1, 2, 3>>
    /\ stopLog = <<2, 1>>

\* the number of times x occurs in seq
Count(seq, x) == Cardinality({i \in 1..Len(seq) : seq[i] = x})

\* C16: a task instance is recorded as started before its Run is invoked; when
\* executeTasks has returned, Stop has been invoked exactly once on every
\* started instance, whatever its Run returned; once an instance is stopped,
\* neither its Run nor its Stop is invoked again.
C16_TaskLifecycle ==
    /\ [](/\ \A p \in Range(runLog) : p \in Range(startedTasks)
          /\ \A p \in Range(stopLog) : p \in Range(startedTasks)
          /\ \A p \in Range(startedTasks) :
                /\ Count(startedTasks, p) = 1
                /\ Count(runLog, p) <= 1
                /\ Count(stopLog, p) <= 1
                /\ Executed => Count(stopLog, p) = 1)
    /\ [][\A p \in Range(stopLog) :
             /\ Count(runLog', p) = Count(runLog, p)
             /\ Count(stopLog', p) = 1]_vars

\* the Run of the second of two started instances failed, and both instances
\* were stopped once
C16_Witness ==
    /\ Executed
    /\ startedTasks = <<1, 2>>
    /\ runOk = {1}
    /\ err.kind = "run"
    /\ Count(stopLog, 1) = 1
    /\ Count(stopLog, 2) = 1

\* the dependency Names the configuration declares for a resource
DeclaredDeps(res) == registry[res]

\* the post-order of the depth-first traversal of a list of Names: for each
\* Name in order, the traversal of its declared dependencies, then the Name;
\* depth bounds the recursion
RECURSIVE PostOrder(_, _)
PostOrder(names, depth) ==
    IF names = <<>> \/ depth = 0 THEN <<>>
    ELSE LET n == names[1]
         IN  PostOrder(DeclaredDeps(n.resource), depth - 1)
                 \o <<[name |-> n, deps |-> DeclaredDeps(n.resource)]>>
                 \o PostOrder(SubSeq(names, 2, Len(names)), depth)

\* the Names Run was asked for: the request, or the default task
RequestedNames ==
    IF request = <<>>
    THEN {<<ParseName(d).name>> : d \in MetaDefaults \ {<<>>}}
    ELSE {[i \in 1..Len(request) |-> ParseName(request[i]).name]}

\* C17: for an acyclic registry, the sequence returned by collectTasks is the
\* post-order of the depth-first traversal that visits the requested Names in
\* the order given and the dependencies of each resource in their declared
\* order.
C17_PostOrder ==
    (Acyclic /\ ~collected.nil) =>
        \E names \in RequestedNames :
            collected.tasks = PostOrder(names, Cardinality(Resources) + 1)

\* a collection of a request of two Names, the first with two dependencies of
\* which one depends on the other
C17_Witness ==
    /\ Acyclic
    /\ ~collected.nil
    /\ Len(request) = 2
    /\ Len(collected.tasks) >= 5
    /\ Len(collected.tasks[4].deps) = 2

\* C18: at every point of executeTasks the Names marked modified in the context
\* are exactly the Names of which a Run has returned modified = true without
\* error in this run; a Name is never unmarked, and the return of a Run with an
\* error or with modified = false marks nothing.
C18_ModifiedSet ==
    /\ [](ctxModified = retModified)
    /\ [][/\ ctxModified \subseteq ctxModified'
          /\ ctxModified' # ctxModified =>
                /\ pc = "running"
                /\ pc' = "execute"
                /\ err' = NoErr
                /\ ctxModified' = ctxModified \cup {tasks[pos].name}]_vars

\* two Names are marked modified after the Run of a third task failed
C18_Witness ==
    /\ Executed
    /\ err.kind = "run"
    /\ Cardinality(ctxModified) = 2
    /\ Len(runLog) = 3

\* C19: a task is run with depsModified = true exactly when one of the Names of
\* its own dependency list is marked modified; a mark on a dependency of a
\* dependency does not reach it.
C19_DirectDepsOnly ==
    pc = "running" =>
        (depsModified <=> \E i \in 1..Len(tasks[pos].deps) :
                              tasks[pos].deps[i] \in ctxModified)

\* X is marked modified, Y depends on X and is not marked, Z depends only on Y
\* and is run with depsModified = false
C19_Witness ==
    /\ pc = "running"
    /\ ~depsModified
    /\ Len(tasks[pos].deps) = 1
    /\ \E y \in 1..(pos - 1) :
          /\ tasks[y].name = tasks[pos].deps[1]
          /\ tasks[y].name \notin ctxModified
          /\ Len(tasks[y].deps) = 1
          /\ tasks[y].deps[1] \in ctxModified

\* collectTasks has returned, to Run or with an error
CollectReturned == pc \notin {"start", "collect", "cycle"}

\* C20: collectTasks returns, with a collection or an error, for every registry
\* and request; the active-path stack never holds a Name twice and holds one
\* Name per active invocation that has pushed, and it is empty when
\* collectTasks returns a collection.
C20_CollectTerminates ==
    /\ <>CollectReturned
    /\ [](/\ NoDup(taskStack)
          /\ pc = "collect" => Len(taskStack) = Len(frames) - 1
          /\ pc = "cycle" => Len(taskStack) = Len(frames) - 1
          /\ ~collected.nil => taskStack = <<>>
          /\ CollectReturned => (collected.nil <=> CollectionFailed \/ err.kind \in {"nodefault", "execenv", "config"}))

\* collectTasks returned a collection of four TaskConfigs with the stack empty
C20_Witness ==
    /\ ~collected.nil
    /\ Len(collected.tasks) = 4
    /\ taskStack = <<>>
    /\ Len(request) = 1

====
